---- MODULE Spec2Model ----
(***************************************************************************)
(* LineChartInteractiveViewComponent                                       *)
(* (tensorboard/webapp/widgets/line_chart_v2/sub_view/                     *)
(*  line_chart_interactive_view.ts) as a state machine: one action per    *)
(* DOM listener registered in ngAfterViewInit, per lifecycle hook and per  *)
(* timer callback.  Pixel coordinates, data coordinates and time are small *)
(* integers.                                                               *)
(***************************************************************************)
EXTENDS Integers, Sequences, FiniteSets, TLC

\* ------------------------------------------------------------------ bounds
\* Largest pixel column / row of the chart area; domDim is MaxX by MaxY.
MaxX == 1

MaxY == 1

\* timer(3000): the delay of the hide-instruction timer, in milliseconds.
TIMER_MS == 3000

\* SCROLL_ZOOM_SPEED_FACTOR = 0.01, in hundredths.
SCROLL_ZOOM_SPEED_FACTOR_X100 == 1

\* ------------------------------------------------------------ option values
\* `T | null` is a sequence of length at most one: <<>> is null.
None == << >>

Some(v) == << v >>

\* ------------------------------------------------------------------- state
VARIABLES
  lifecycle,              \* "constructed" | "listening" | "destroyed"
  inputs,                 \* the @Input() bindings, see HostInputs
  state,                  \* InteractionState
  zoomBoxInUiCoordinate,  \* Rect
  cursorXLocation,        \* number | null
  cursoredData,           \* TooltipDatum[]
  tooltipDislayAttached,  \* boolean
  showZoomInstruction,    \* boolean
  dragStartCoord,         \* {x, y} | null
  isCursorInside,         \* boolean
  timer,                  \* milliseconds left on the inner timer(3000) of the
                          \* wheel switchMap; null when none is subscribed
  lastEvent,              \* the listener, hook or callback that ran last
  viewExtentChanges,      \* what onViewExtentChange emitted during lastEvent
  viewExtentResets        \* how often onViewExtentReset emitted during lastEvent

vars == << lifecycle, inputs, state, zoomBoxInUiCoordinate, cursorXLocation,
           cursoredData, tooltipDislayAttached, showZoomInstruction,
           dragStartCoord, isCursorInside, timer, lastEvent,
           viewExtentChanges, viewExtentResets >>

\* The fields of the component that the listeners write.
fields == << state, zoomBoxInUiCoordinate, cursorXLocation, cursoredData,
             tooltipDislayAttached, showZoomInstruction, dragStartCoord,
             isCursorInside >>

\* enum InteractionState
InteractionState == { "NONE", "DRAG_ZOOMING", "SCROLL_ZOOMING", "PANNING" }

\* The DOM events ngAfterViewInit subscribes to.
DomEvents == { "dblclick", "mousedown", "mouseup", "mouseenter", "mouseleave",
               "mousemove", "wheel" }

\* ------------------------------------------------------------------ inputs
\* Pointer columns: every pixel column of the chart area.
PixelXs == 0 .. MaxX

\* Pointer rows: the top and the bottom row of the chart area.
PixelYs == { 0, MaxY }

\* domDim: the chart area is MaxX pixels wide and MaxY pixels high.
DomDim == [ width |-> MaxX, height |-> MaxY ]

\* View extents whose sides are whole multiples of domDim, so that the linear
\* scale maps every pixel to an integer.
ExtentWide == [ x |-> << 0, 2 * MaxX >>, y |-> << 0, 2 * MaxY >> ]

ExtentShifted == [ x |-> << 1, 1 + MaxX >>, y |-> << -1, MaxY - 1 >> ]

Point(px, py) == [ x |-> px, y |-> py ]

Series(sid, pts) == [ id |-> sid, points |-> pts ]

Meta(v, a) == [ visible |-> v, aux |-> a ]

Shown == Meta(TRUE, FALSE)

Hidden == Meta(FALSE, FALSE)

Aux == Meta(TRUE, TRUE)

\* The bindings the host component supplies: series data, the metadata map
\* (a function on the ids that have metadata), the view extent and domDim.
\*  first: two visible series with points (the cursor at 2 is an exact tie
\*    between the points of "a"), a visible series without points, an aux
\*    series and a series without metadata;
\*  second: a hidden series and an aux one only, under another view extent.
HostInputs ==
  { [ seriesData |-> << Series("a", << Point(1, 5), Point(3, 6) >>),
                        Series("e", << >>),
                        Series("c", << Point(1, 8) >>),
                        Series("b", << Point(0, 7), Point(2, 9) >>),
                        Series("d", << Point(2, 8) >>) >>,
      seriesMetadataMap |-> [ i \in {"a", "b", "c", "e"} |->
                                IF i = "c" THEN Aux ELSE Shown ],
      viewExtent |-> ExtentWide,
      domDim |-> DomDim ],
    [ seriesData |-> << Series("a", << Point(2, 5) >>),
                        Series("b", << Point(2, 7) >>) >>,
      seriesMetadataMap |-> [ i \in {"a", "b"} |->
                                IF i = "a" THEN Hidden ELSE Aux ],
      viewExtent |-> ExtentShifted,
      domDim |-> DomDim ] }

\* ----------------------------------------------------------------- helpers
Abs(n) == IF n < 0 THEN -n ELSE n

Min2(a, b) == IF a <= b THEN a ELSE b

Max2(a, b) == IF a >= b THEN a ELSE b

RECURSIVE FilterSeq(_, _)
\* Array.prototype.filter, with the predicate given as the set of kept values.
FilterSeq(s, keep) ==
  IF s = << >> THEN << >>
  ELSE IF Head(s) \in keep THEN << Head(s) >> \o FilterSeq(Tail(s), keep)
  ELSE FilterSeq(Tail(s), keep)

\* getScaleRangeFromDomDim: the pixel range of an axis; pixel y grows downward.
GetScaleRangeFromDomDim(domDim, axis) ==
  IF axis = "x" THEN << 0, domDim.width >> ELSE << domDim.height, 0 >>

\* Scale.reverse of the linear scale: the domain value whose pixel is v.
ScaleReverse(domain, range, v) ==
  LET num == (domain[2] - domain[1]) * (v - range[1])
      den == range[2] - range[1]
  IN  IF den > 0 THEN domain[1] + (num \div den)
      ELSE domain[1] + ((-num) \div (-den))

\* getDataX
GetDataX(inp, uiCoord) ==
  ScaleReverse(inp.viewExtent.x, GetScaleRangeFromDomDim(inp.domDim, "x"), uiCoord)

\* getDataY
GetDataY(inp, uiCoord) ==
  ScaleReverse(inp.viewExtent.y, GetScaleRangeFromDomDim(inp.domDim, "y"), uiCoord)

\* findClosestIndex: the 0-based index of the point whose x is nearest to
\* pointerX, the first such index on a tie; null for an empty point list.
FindClosestIndex(points, pointerX) ==
  IF points = << >> THEN None
  ELSE LET dist(i) == Abs(points[i].x - pointerX)
           best == CHOOSE i \in 1 .. Len(points) :
                     \A j \in 1 .. Len(points) :
                       dist(i) < dist(j) \/ (dist(i) = dist(j) /\ i <= j)
       IN  Some(best - 1)

\* proposeViewExtentOnZoom: the extent proposed for a wheel event, kept as the
\* application of the function to its arguments.
ProposeViewExtentOnZoom(event, viewExtent, domDim, speedFactorX100) ==
  [ zoomOf |-> viewExtent, deltaY |-> event.deltaY, domDim |-> domDim,
    speedFactorX100 |-> speedFactorX100 ]

\* ------------------------------------------------- tooltip (lines 405-440)
\* Mutant of MetadataEligible: the aux flag is not looked at.
MetadataEligibleIgnoringAux(inp, sid) ==
  /\ sid \in DOMAIN inp.seriesMetadataMap
  /\ inp.seriesMetadataMap[sid].visible

\* The metadata filter of updateCursoredDataAndTooltipVisibility:
\* metadata && metadata.visible && !Boolean(metadata.aux)
MetadataEligible(inp, sid) ==
  /\ sid \in DOMAIN inp.seriesMetadataMap
  /\ inp.seriesMetadataMap[sid].visible
  /\ ~ inp.seriesMetadataMap[sid].aux

\* The second map of updateCursoredDataAndTooltipVisibility: a TooltipDatum.
MakeTooltipDatum(inp, series, cursorX) ==
  LET index == FindClosestIndex(series.points, cursorX)
  IN  [ id |-> series.id,
        indClosest |-> index,
        point |-> IF index # None THEN Some(series.points[index[1] + 1]) ELSE None,
        metadata |-> inp.seriesMetadataMap[series.id] ]

\* The value assigned to this.cursoredData.
ComputeCursoredData(inp, cursorX) ==
  LET all == inp.seriesData
      eligible == FilterSeq(all, { all[i] : i \in { k \in 1 .. Len(all) :
                                     MetadataEligible(inp, all[k].id) } })
      data == [ i \in 1 .. Len(eligible) |->
                  MakeTooltipDatum(inp, eligible[i], cursorX) ]
  IN  FilterSeq(data, { data[i] : i \in { k \in 1 .. Len(data) :
                          data[k].indClosest # None } })

\* Mutant of ComputeAttached: the inside flag is not looked at.
ComputeAttachedIgnoringInside(inside, data) == Len(data) # 0

\* Mutant of ComputeAttached: the length of the list is not looked at.
ComputeAttachedIgnoringData(inside, data) == inside

\* The value assigned to this.tooltipDislayAttached.
ComputeAttached(inside, data) == inside /\ Len(data) # 0

\* updateCursoredDataAndTooltipVisibility, given the cursor location, the
\* inside flag and the inputs it reads.
UpdateCursoredDataAndTooltipVisibility(cursorX, inside, inp) ==
  IF cursorX = None
  THEN UNCHANGED << cursoredData, tooltipDislayAttached >>
  ELSE /\ cursoredData' = ComputeCursoredData(inp, cursorX[1])
       /\ tooltipDislayAttached' =
            ComputeAttached(inside, ComputeCursoredData(inp, cursorX[1]))

\* Mutant of TooltipCursorX: the column of the event is not looked at.
TooltipCursorXAtOrigin(inp, event) == Some(GetDataX(inp, 0))

\* Mutant of TooltipCursorX: the column goes through the y scale.
TooltipCursorXThroughY(inp, event) == Some(GetDataY(inp, event.offsetX))

\* The cursor location updateTooltip resolves from a mouse event.
TooltipCursorX(inp, event) == Some(GetDataX(inp, event.offsetX))

\* updateTooltip
UpdateTooltip(event, inside) ==
  /\ cursorXLocation' = TooltipCursorX(inputs, event)
  /\ UpdateCursoredDataAndTooltipVisibility(TooltipCursorX(inputs, event),
                                            inside, inputs)

\* ------------------------------------------------------------------ events
\* What the mousedown listener reads of a MouseEvent.
MouseDownEvents ==
  [ offsetX : PixelXs, offsetY : PixelYs, shiftKey : BOOLEAN ]

\* What updateTooltip reads of a MouseEvent (mouseenter, mouseleave).
CursorEvents == [ offsetX : PixelXs ]

\* The movements of a mousemove, along one axis at a time.
Movements == { << 0, 0 >>, << 1, 0 >>, << -1, 0 >>, << 0, 1 >>, << 0, -1 >> }

\* What the mousemove listener reads of a MouseEvent in interaction state
\* st: the movement while panning, the position while drag zooming, the
\* column otherwise.  The fields it does not read are left at 0.
MouseMoveEvents(st) ==
  CASE st = "PANNING" ->
         { [ offsetX |-> 0, offsetY |-> 0, movementX |-> m[1], movementY |-> m[2] ] :
             m \in Movements }
    [] st = "DRAG_ZOOMING" ->
         { [ offsetX |-> px, offsetY |-> py, movementX |-> 0, movementY |-> 0 ] :
             px \in PixelXs, py \in PixelYs }
    [] OTHER ->
         { [ offsetX |-> px, offsetY |-> 0, movementX |-> 0, movementY |-> 0 ] :
             px \in PixelXs }

WheelEvents ==
  [ ctrlKey : BOOLEAN, shiftKey : BOOLEAN, altKey : BOOLEAN, deltaY : { 1 } ]

\* Mutant of Listening: a listener piped without takeUntil.
ListeningWithoutTakeUntil == lifecycle # "constructed"

\* takeUntil(this.ngUnsubscribe) on a fromEvent stream subscribed in
\* ngAfterViewInit: the listener runs only between view init and teardown.
Listening == lifecycle = "listening"

\* Every listener starts with nothing emitted.
NoOutput ==
  /\ viewExtentChanges' = << >>
  /\ viewExtentResets' = 0

\* -------------------------------------------------------------------- Init
Init ==
  /\ lifecycle = "constructed"
  /\ inputs \in HostInputs
  /\ state = "NONE"
  /\ zoomBoxInUiCoordinate = [ x |-> 0, width |-> 0, height |-> 0, y |-> 0 ]
  /\ cursorXLocation = None
  /\ cursoredData = << >>
  /\ tooltipDislayAttached = FALSE
  /\ showZoomInstruction = FALSE
  /\ dragStartCoord = None
  /\ isCursorInside = FALSE
  /\ timer = None
  /\ lastEvent = "constructor"
  /\ viewExtentChanges = << >>
  /\ viewExtentResets = 0

\* ----------------------------------------------------------------- actions
\* ngAfterViewInit: subscribes the seven listeners.
NgAfterViewInit ==
  /\ lifecycle = "constructed"
  /\ lifecycle' = "listening"
  /\ lastEvent' = "ngAfterViewInit"
  /\ NoOutput
  /\ UNCHANGED << inputs, fields, timer >>

\* Mutant of DblClick: the state is not reset.
DblClickKeepingState ==
  /\ lifecycle = "listening"
  /\ lastEvent' = "dblclick"
  /\ viewExtentResets' = 1
  /\ viewExtentChanges' = << >>
  /\ UNCHANGED << lifecycle, inputs, state, zoomBoxInUiCoordinate,
                  cursorXLocation, cursoredData, tooltipDislayAttached,
                  showZoomInstruction, dragStartCoord, isCursorInside, timer >>

\* dblclick listener
DblClick ==
  /\ Listening
  /\ lastEvent' = "dblclick"
  /\ viewExtentResets' = 1
  /\ viewExtentChanges' = << >>
  /\ state' = "NONE"
  /\ UNCHANGED << lifecycle, inputs, zoomBoxInUiCoordinate, cursorXLocation,
                  cursoredData, tooltipDislayAttached, showZoomInstruction,
                  dragStartCoord, isCursorInside, timer >>

\* Mutant of MouseDownState: the shift key selects the wrong gesture.
MouseDownStateSwapped(event) ==
  IF event.shiftKey THEN "DRAG_ZOOMING" ELSE "PANNING"

\* The state a mousedown selects.
MouseDownState(event) == IF event.shiftKey THEN "PANNING" ELSE "DRAG_ZOOMING"

\* Mutant of MouseDown: the zoom box of an earlier drag is kept.
MouseDownKeepingZoomBox(event) ==
  /\ lifecycle = "listening"
  /\ lastEvent' = "mousedown"
  /\ viewExtentChanges' = << >>
  /\ viewExtentResets' = 0
  /\ state' = (IF event.shiftKey THEN "PANNING" ELSE "DRAG_ZOOMING")
  /\ dragStartCoord' = Some([ x |-> event.offsetX, y |-> event.offsetY ])
  /\ UNCHANGED << lifecycle, inputs, zoomBoxInUiCoordinate, cursorXLocation,
                  cursoredData, tooltipDislayAttached, showZoomInstruction,
                  isCursorInside, timer >>

\* mousedown listener
MouseDown(event) ==
  /\ Listening
  /\ lastEvent' = "mousedown"
  /\ NoOutput
  /\ state' = MouseDownState(event)
  /\ dragStartCoord' = Some([ x |-> event.offsetX, y |-> event.offsetY ])
  /\ zoomBoxInUiCoordinate' =
       IF MouseDownState(event) = "DRAG_ZOOMING"
       THEN [ x |-> event.offsetX, width |-> 0, y |-> event.offsetY, height |-> 0 ]
       ELSE zoomBoxInUiCoordinate
  /\ UNCHANGED << lifecycle, inputs, cursorXLocation, cursoredData,
                  tooltipDislayAttached, showZoomInstruction, isCursorInside,
                  timer >>

\* Mutant of ZoomBoxCommitted: the height is not looked at.
ZoomBoxCommittedIgnoringHeight(st, zoomBox) ==
  st = "DRAG_ZOOMING" /\ zoomBox.width > 0

\* Mutant of ZoomBoxCommitted: the interaction state is not looked at.
ZoomBoxCommittedIgnoringState(st, zoomBox) ==
  zoomBox.width > 0 /\ zoomBox.height > 0

\* The condition under which mouseup commits the zoom box.
ZoomBoxCommitted(st, zoomBox) ==
  st = "DRAG_ZOOMING" /\ zoomBox.width > 0 /\ zoomBox.height > 0

\* The extent mouseup emits for a zoom box.
ZoomBoxExtent(inp, zoomBox) ==
  [ x |-> << GetDataX(inp, zoomBox.x), GetDataX(inp, zoomBox.x + zoomBox.width) >>,
    y |-> << GetDataY(inp, zoomBox.y + zoomBox.height), GetDataY(inp, zoomBox.y) >> ]

\* Mutant of MouseUp: the state is not reset.
MouseUpKeepingState ==
  /\ lifecycle = "listening"
  /\ lastEvent' = "mouseup"
  /\ dragStartCoord' = None
  /\ viewExtentResets' = 0
  /\ viewExtentChanges' =
       IF state = "DRAG_ZOOMING" /\ zoomBoxInUiCoordinate.width > 0
            /\ zoomBoxInUiCoordinate.height > 0
       THEN << [ x |-> << GetDataX(inputs, zoomBoxInUiCoordinate.x),
                         GetDataX(inputs, zoomBoxInUiCoordinate.x
                                            + zoomBoxInUiCoordinate.width) >>,
                 y |-> << GetDataY(inputs, zoomBoxInUiCoordinate.y
                                            + zoomBoxInUiCoordinate.height),
                         GetDataY(inputs, zoomBoxInUiCoordinate.y) >> ] >>
       ELSE << >>
  /\ UNCHANGED << lifecycle, inputs, state, zoomBoxInUiCoordinate,
                  cursorXLocation, cursoredData, tooltipDislayAttached,
                  showZoomInstruction, isCursorInside, timer >>

\* mouseup listener
MouseUp ==
  /\ Listening
  /\ lastEvent' = "mouseup"
  /\ dragStartCoord' = None
  /\ viewExtentResets' = 0
  /\ viewExtentChanges' =
       IF ZoomBoxCommitted(state, zoomBoxInUiCoordinate)
       THEN << ZoomBoxExtent(inputs, zoomBoxInUiCoordinate) >>
       ELSE << >>
  /\ state' = "NONE"
  /\ UNCHANGED << lifecycle, inputs, zoomBoxInUiCoordinate, cursorXLocation,
                  cursoredData, tooltipDislayAttached, showZoomInstruction,
                  isCursorInside, timer >>

\* mouseenter listener
MouseEnter(event) ==
  /\ Listening
  /\ lastEvent' = "mouseenter"
  /\ NoOutput
  /\ isCursorInside' = TRUE
  /\ UpdateTooltip(event, TRUE)
  /\ UNCHANGED << lifecycle, inputs, state, zoomBoxInUiCoordinate,
                  showZoomInstruction, dragStartCoord, timer >>

\* Mutant of MouseLeave: the state is not reset.
MouseLeaveKeepingState(event) ==
  /\ lifecycle = "listening"
  /\ lastEvent' = "mouseleave"
  /\ viewExtentChanges' = << >>
  /\ viewExtentResets' = 0
  /\ dragStartCoord' = None
  /\ isCursorInside' = FALSE
  /\ UpdateTooltip(event, FALSE)
  /\ UNCHANGED << lifecycle, inputs, state, zoomBoxInUiCoordinate,
                  showZoomInstruction, timer >>

\* mouseleave listener
MouseLeave(event) ==
  /\ Listening
  /\ lastEvent' = "mouseleave"
  /\ NoOutput
  /\ dragStartCoord' = None
  /\ isCursorInside' = FALSE
  /\ UpdateTooltip(event, FALSE)
  /\ state' = "NONE"
  /\ UNCHANGED << lifecycle, inputs, zoomBoxInUiCoordinate, showZoomInstruction,
                  timer >>

\* Mutant of PanExtent: the movement is not negated.
PanExtentAlongMovement(inp, event) ==
  LET deltaX == event.movementX
      deltaY == event.movementY
  IN  [ x |-> << GetDataX(inp, deltaX), GetDataX(inp, inp.domDim.width + deltaX) >>,
        y |-> << GetDataY(inp, inp.domDim.height + deltaY), GetDataY(inp, deltaY) >> ]

\* The extent a mousemove emits while panning.
PanExtent(inp, event) ==
  LET deltaX == - event.movementX
      deltaY == - event.movementY
  IN  [ x |-> << GetDataX(inp, deltaX), GetDataX(inp, inp.domDim.width + deltaX) >>,
        y |-> << GetDataY(inp, inp.domDim.height + deltaY), GetDataY(inp, deltaY) >> ]

\* Mutant of DragZoomBox: the box runs from the drag origin to the pointer,
\* without taking the minimum and the maximum.
DragZoomBoxFromOrigin(start, event) ==
  [ x |-> start.x,
    width |-> event.offsetX - start.x,
    y |-> start.y,
    height |-> event.offsetY - start.y ]

\* The zoom box a mousemove computes while drag zooming.
DragZoomBox(start, event) ==
  [ x |-> Min2(start.x, event.offsetX),
    width |-> Max2(start.x, event.offsetX) - Min2(start.x, event.offsetX),
    y |-> Min2(start.y, event.offsetY),
    height |-> Max2(start.y, event.offsetY) - Min2(start.y, event.offsetY) ]

\* mousemove listener
MouseMove(event) ==
  /\ Listening
  /\ lastEvent' = "mousemove"
  /\ viewExtentResets' = 0
  /\ CASE state = "SCROLL_ZOOMING" ->
            /\ state' = "NONE"
            /\ UpdateTooltip(event, isCursorInside)
            /\ viewExtentChanges' = << >>
            /\ UNCHANGED zoomBoxInUiCoordinate
       [] state = "NONE" ->
            /\ UpdateTooltip(event, isCursorInside)
            /\ viewExtentChanges' = << >>
            /\ UNCHANGED << state, zoomBoxInUiCoordinate >>
       [] state = "PANNING" ->
            /\ viewExtentChanges' = << PanExtent(inputs, event) >>
            /\ UNCHANGED << state, zoomBoxInUiCoordinate, cursorXLocation,
                            cursoredData, tooltipDislayAttached >>
       [] state = "DRAG_ZOOMING" ->
            /\ viewExtentChanges' = << >>
            /\ IF dragStartCoord = None
               THEN UNCHANGED zoomBoxInUiCoordinate
               ELSE zoomBoxInUiCoordinate' = DragZoomBox(dragStartCoord[1], event)
            /\ UNCHANGED << state, cursorXLocation, cursoredData,
                            tooltipDislayAttached >>
  /\ UNCHANGED << lifecycle, inputs, showZoomInstruction, dragStartCoord,
                  isCursorInside, timer >>

\* Mutant of ShouldZoom: the shift key is not looked at.
ShouldZoomIgnoringShift(event) == ~ event.ctrlKey /\ event.altKey

\* const shouldZoom = !event.ctrlKey && !event.shiftKey && event.altKey
ShouldZoom(event) == ~ event.ctrlKey /\ ~ event.shiftKey /\ event.altKey

\* Mutant of SwitchMapInner: mergeMap instead of switchMap, the inner timers
\* subscribed earlier stay subscribed.
SwitchMapInnerMerging(event) ==
  IF ShouldZoom(event) THEN timer ELSE timer \o << TIMER_MS >>

\* The inner stream switchMap switches to: of(event) completes at once, and
\* timer(3000) replaces whatever inner timer was subscribed.
SwitchMapInner(event) ==
  IF ShouldZoom(event) THEN None ELSE Some(TIMER_MS)

\* wheel listener: the switchMap projection and, for the events that pass the
\* filter, the subscriber.
Wheel(event) ==
  /\ Listening
  /\ lastEvent' = "wheel"
  /\ viewExtentResets' = 0
  /\ showZoomInstruction' = ~ ShouldZoom(event)
  /\ timer' = SwitchMapInner(event)
  /\ IF ShouldZoom(event)
     THEN /\ viewExtentChanges' =
               << ProposeViewExtentOnZoom(event, inputs.viewExtent, inputs.domDim,
                                          SCROLL_ZOOM_SPEED_FACTOR_X100) >>
          /\ state' = "SCROLL_ZOOMING"
     ELSE /\ viewExtentChanges' = << >>
          /\ UNCHANGED state
  /\ UNCHANGED << lifecycle, inputs, zoomBoxInUiCoordinate, cursorXLocation,
                  cursoredData, tooltipDislayAttached, dragStartCoord,
                  isCursorInside >>

\* Time passes up to the deadline of the subscribed inner timer; until the
\* event loop runs its callback, listeners may still run first.
Tick ==
  /\ timer # None
  /\ timer[1] > 0
  /\ timer' = Some(0)
  /\ UNCHANGED << lifecycle, inputs, fields, lastEvent, viewExtentChanges,
                  viewExtentResets >>

\* Whether the inner timer is still subscribed and due.  takeUntil precedes
\* switchMap in the pipe, so teardown completes the outer stream only and the
\* inner timer stays subscribed.
TimerDue == timer # None /\ timer[1] = 0

\* Mutant of TimerFire: the callback leaves the instruction showing.
TimerFireKeepingInstruction ==
  /\ TimerDue
  /\ lastEvent' = "timer"
  /\ NoOutput
  /\ timer' = None
  /\ UNCHANGED << lifecycle, inputs, fields >>

\* The tap of timer(3000); map(() => null) and the filter drop its value.
TimerFire ==
  /\ TimerDue
  /\ lastEvent' = "timer"
  /\ NoOutput
  /\ showZoomInstruction' = FALSE
  /\ timer' = None
  /\ UNCHANGED << lifecycle, inputs, state, zoomBoxInUiCoordinate,
                  cursorXLocation, cursoredData, tooltipDislayAttached,
                  dragStartCoord, isCursorInside >>

\* Mutant of NgOnChanges: the tooltip is not recomputed.
NgOnChangesWithoutRecompute(newInputs) ==
  /\ lifecycle # "destroyed"
  /\ lastEvent' = "ngOnChanges"
  /\ viewExtentChanges' = << >>
  /\ viewExtentResets' = 0
  /\ inputs' = newInputs
  /\ UNCHANGED << lifecycle, state, zoomBoxInUiCoordinate, cursorXLocation,
                  cursoredData, tooltipDislayAttached, showZoomInstruction,
                  dragStartCoord, isCursorInside, timer >>

\* ngOnChanges: the host binds new inputs, then the hook runs.  The framework
\* calls it before view init as well, and never after ngOnDestroy.
NgOnChanges(newInputs) ==
  /\ lifecycle # "destroyed"
  /\ lastEvent' = "ngOnChanges"
  /\ NoOutput
  /\ inputs' = newInputs
  /\ UpdateCursoredDataAndTooltipVisibility(cursorXLocation, isCursorInside,
                                            newInputs)
  /\ UNCHANGED << lifecycle, state, zoomBoxInUiCoordinate, cursorXLocation,
                  showZoomInstruction, dragStartCoord, isCursorInside, timer >>

\* onTooltipDisplayDetached: the (detach) output of the overlay in the view.
OnTooltipDisplayDetached ==
  /\ Listening
  /\ lastEvent' = "onTooltipDisplayDetached"
  /\ NoOutput
  /\ tooltipDislayAttached' = FALSE
  /\ UNCHANGED << lifecycle, inputs, state, zoomBoxInUiCoordinate,
                  cursorXLocation, cursoredData, showZoomInstruction,
                  dragStartCoord, isCursorInside, timer >>

\* ngOnDestroy: ngUnsubscribe.next(); ngUnsubscribe.complete()
NgOnDestroy ==
  /\ lifecycle # "destroyed"
  /\ lifecycle' = "destroyed"
  /\ lastEvent' = "ngOnDestroy"
  /\ NoOutput
  /\ UNCHANGED << inputs, fields, timer >>

Next ==
  \/ NgAfterViewInit
  \/ DblClick
  \/ \E event \in MouseDownEvents : MouseDown(event)
  \/ MouseUp
  \/ \E event \in CursorEvents : MouseEnter(event)
  \/ \E event \in CursorEvents : MouseLeave(event)
  \/ \E event \in MouseMoveEvents(state) : MouseMove(event)
  \/ \E event \in WheelEvents : Wheel(event)
  \/ Tick
  \/ TimerFire
  \/ \E newInputs \in HostInputs : NgOnChanges(newInputs)
  \/ OnTooltipDisplayDetached
  \/ NgOnDestroy

Spec == Init /\ [][Next]_vars

\* The event loop runs a due timer callback, and time passes.
FairSpec == Spec /\ WF_vars(Tick) /\ WF_vars(TimerFire)

\* ================================================================== claims

\* C1: after the mouseleave listener has run, from any interaction state and
\* with any cursor and tooltip data, the tooltip is not attached, the state is
\* NONE and the drag origin is cleared.
C1_MouseLeaveDetachesAndIdles ==
  lastEvent = "mouseleave" =>
    /\ tooltipDislayAttached = FALSE
    /\ state = "NONE"
    /\ dragStartCoord = None

\* C1 witness: a mouse leave over resolvable tooltip data, with a zoom box of
\* an earlier drag still around.
C1_Witness ==
  /\ lastEvent = "mouseleave"
  /\ cursoredData # << >>
  /\ zoomBoxInUiCoordinate.width > 0
  /\ zoomBoxInUiCoordinate.height > 0

\* C2: a mouseup handled while DRAG_ZOOMING emits exactly one extent,
\* x = [toData(box.x), toData(box.x + box.width)] and
\* y = [toData(box.y + box.height), toData(box.y)], when the zoom box has
\* positive width and positive height, and emits nothing when the width or
\* the height is zero.
C2_MouseUpCommitsZoomBox ==
  [][ (lastEvent' = "mouseup" /\ state = "DRAG_ZOOMING") =>
        LET box == zoomBoxInUiCoordinate
        IN  /\ viewExtentResets' = 0
            /\ IF box.width > 0 /\ box.height > 0
               THEN viewExtentChanges' =
                      << [ x |-> << GetDataX(inputs, box.x),
                                    GetDataX(inputs, box.x + box.width) >>,
                           y |-> << GetDataY(inputs, box.y + box.height),
                                    GetDataY(inputs, box.y) >> ] >>
               ELSE viewExtentChanges' = << >> ]_vars

\* C2 witness: a mouseup has committed the box dragged from the top left
\* pixel to the bottom right pixel.
C2_Witness ==
  /\ lastEvent = "mouseup"
  /\ Len(viewExtentChanges) = 1
  /\ zoomBoxInUiCoordinate = [ x |-> 0, width |-> MaxX, y |-> 0, height |-> MaxY ]

\* C3: a wheel event zooms exactly when Alt is held and neither Ctrl nor
\* Shift is.  Then one extent is emitted, the state becomes SCROLL_ZOOMING and
\* showZoomInstruction is false; otherwise nothing is emitted, the state is
\* left as it was and showZoomInstruction becomes true.
C3_WheelZoomsOnAltOnly ==
  [][ \A event \in WheelEvents :
        Wheel(event) =>
          IF event.altKey /\ ~ event.ctrlKey /\ ~ event.shiftKey
          THEN /\ Len(viewExtentChanges') = 1
               /\ viewExtentResets' = 0
               /\ state' = "SCROLL_ZOOMING"
               /\ showZoomInstruction' = FALSE
          ELSE /\ viewExtentChanges' = << >>
               /\ viewExtentResets' = 0
               /\ state' = state
               /\ showZoomInstruction' = TRUE ]_vars

\* C3 witness: a wheel event has zoomed.
C3_Witness ==
  /\ lastEvent = "wheel"
  /\ state = "SCROLL_ZOOMING"
  /\ Len(viewExtentChanges) = 1
  /\ showZoomInstruction = FALSE

\* C4: showZoomInstruction, once a wheel event that does not zoom has set it,
\* is hidden by nothing but a later wheel event or the callback of the due
\* timer; and when wheel events stop, the timer callback eventually runs and
\* showZoomInstruction is false from then on: it never stays true forever.
C4_InstructionHidesWhenTimerFires ==
  /\ [][ (showZoomInstruction /\ ~ showZoomInstruction'
            /\ ~ \E event \in WheelEvents : Wheel(event)) =>
           (lastEvent' = "timer" /\ timer = Some(0)) ]_vars
  /\ (<>[][ ~ \E event \in WheelEvents : Wheel(event) ]_vars) =>
       <>[](showZoomInstruction = FALSE)

\* C4 witness: the timer callback has hidden the instruction.
C4_Witness ==
  /\ lastEvent = "timer"
  /\ lifecycle = "listening"
  /\ showZoomInstruction = FALSE

\* C5: once ngOnDestroy has run, the callback of the hide-instruction timer
\* does not run any more.
C5_NoTimerCallbackAfterTeardown ==
  ~ (lifecycle = "destroyed" /\ lastEvent = "timer")

\* C6: after ngOnDestroy no DOM listener runs: the interaction state, the zoom
\* box, the cursor location and the cursored data stay as they are, nothing is
\* emitted, and showZoomInstruction is written by no event (only the callback
\* of a timer left pending can still write it).
C6_NoListenerAfterTeardown ==
  [][ lifecycle = "destroyed" =>
        /\ lastEvent' \notin DomEvents
        /\ UNCHANGED << state, zoomBoxInUiCoordinate, cursorXLocation,
                        cursoredData, dragStartCoord, isCursorInside >>
        /\ viewExtentChanges' = << >>
        /\ viewExtentResets' = 0
        /\ (showZoomInstruction' # showZoomInstruction => lastEvent' = "timer")
    ]_vars

\* C6 witness: the component was destroyed in the middle of a drag, and time
\* has passed since.
C6_Witness ==
  /\ lifecycle = "destroyed"
  /\ state = "DRAG_ZOOMING"
  /\ zoomBoxInUiCoordinate.width > 0
  /\ timer = Some(0)

\* The positions in seriesData of the series a cursor at cursorX resolves:
\* metadata exists, is visible, is not aux, and the point list yields a
\* closest index.
C7_ResolvedPositions(inp, cursorX) ==
  { i \in 1 .. Len(inp.seriesData) :
      LET series == inp.seriesData[i]
      IN  /\ series.id \in DOMAIN inp.seriesMetadataMap
          /\ inp.seriesMetadataMap[series.id].visible
          /\ ~ inp.seriesMetadataMap[series.id].aux
          /\ FindClosestIndex(series.points, cursorX) # None }

\* The listeners that update the cursor have run last.
C7_CursorUpdated ==
  \/ lastEvent \in { "mouseenter", "mouseleave" }
  \/ lastEvent = "mousemove" /\ state = "NONE"

\* C7: after a cursor update cursoredData holds exactly one TooltipDatum for
\* each series whose metadata exists, is visible, is not aux and whose points
\* yield a closest index, in the order of seriesData, and none for any other
\* series.
C7_CursoredDataIsResolvedSeries ==
  C7_CursorUpdated =>
    LET cursorX == cursorXLocation[1]
        resolved == C7_ResolvedPositions(inputs, cursorX)
    IN  /\ Len(cursoredData) = Cardinality(resolved)
        /\ \A i \in resolved :
             LET k == Cardinality({ j \in resolved : j <= i })
                 series == inputs.seriesData[i]
                 index == FindClosestIndex(series.points, cursorX)
             IN  cursoredData[k] =
                   [ id |-> series.id,
                     indClosest |-> index,
                     point |-> Some(series.points[index[1] + 1]),
                     metadata |-> inputs.seriesMetadataMap[series.id] ]

\* C7 witness: the cursor was updated over two visible series with points, a
\* visible series without points, an aux series and a series without
\* metadata; the two visible series with points are resolved.
C7_Witness ==
  /\ C7_CursorUpdated
  /\ Len(cursoredData) = 2
  /\ \E i \in 1 .. Len(inputs.seriesData) :
       /\ inputs.seriesData[i].points = << >>
       /\ inputs.seriesData[i].id \in DOMAIN inputs.seriesMetadataMap
       /\ inputs.seriesMetadataMap[inputs.seriesData[i].id] = Shown
       /\ \E j \in (i + 1) .. Len(inputs.seriesData) :
            cursoredData[2].id = inputs.seriesData[j].id
  /\ \E i \in 1 .. Len(inputs.seriesData) :
       /\ inputs.seriesData[i].id \in DOMAIN inputs.seriesMetadataMap
       /\ inputs.seriesMetadataMap[inputs.seriesData[i].id].aux

\* A step that recomputes the tooltip with a known cursor position: a mouse
\* move while idle or scroll zooming, a mouse enter, a mouse leave, or an
\* input change once the cursor position is set.
C8_Recomputes ==
  \/ lastEvent' \in { "mouseenter", "mouseleave" }
  \/ lastEvent' = "mousemove" /\ state \in { "NONE", "SCROLL_ZOOMING" }
  \/ lastEvent' = "ngOnChanges" /\ cursorXLocation # None

\* C8: right after every tooltip recompute with a known cursor position the
\* attachment flag equals (cursor inside and cursoredData non-empty); and in
\* every reachable state an attached tooltip implies that the cursor is
\* inside and cursoredData is non-empty.
C8_AttachedIffInsideAndData ==
  /\ [][ C8_Recomputes =>
           tooltipDislayAttached' = (isCursorInside' /\ cursoredData' # << >>)
       ]_vars
  /\ [](tooltipDislayAttached => (isCursorInside /\ cursoredData # << >>))

\* C8 witness: an input change has attached the tooltip.
C8_Witness ==
  /\ lastEvent = "ngOnChanges"
  /\ tooltipDislayAttached

\* C9: a mousemove handled while PANNING emits exactly one extent,
\* x = [toData(-movementX), toData(width - movementX)] and
\* y = [toData(height - movementY), toData(-movementY)], and leaves the state
\* PANNING.  Under the linear scale both x bounds are shifted by the data
\* equivalent of -movementX pixels, and without vertical movement the emitted
\* y extent is the current one.
C9_PanEmitsShiftedExtent ==
  [][ \A event \in MouseMoveEvents("PANNING") :
        (state = "PANNING" /\ MouseMove(event)) =>
          LET extent == inputs.viewExtent
              dim == inputs.domDim
              perPixelX == (extent.x[2] - extent.x[1]) \div dim.width
          IN  /\ viewExtentChanges' =
                   << [ x |-> << GetDataX(inputs, - event.movementX),
                                 GetDataX(inputs, dim.width - event.movementX) >>,
                        y |-> << GetDataY(inputs, dim.height - event.movementY),
                                 GetDataY(inputs, - event.movementY) >> ] >>
              /\ viewExtentResets' = 0
              /\ state' = "PANNING"
              /\ viewExtentChanges'[1].x =
                   << extent.x[1] - event.movementX * perPixelX,
                      extent.x[2] - event.movementX * perPixelX >>
              /\ (event.movementY = 0 => viewExtentChanges'[1].y = extent.y)
    ]_vars

\* C9 witness: a horizontal pan has emitted a shifted x extent and the
\* current y extent.
C9_Witness ==
  /\ lastEvent = "mousemove"
  /\ state = "PANNING"
  /\ Len(viewExtentChanges) = 1
  /\ viewExtentChanges[1].y = inputs.viewExtent.y
  /\ viewExtentChanges[1].x # inputs.viewExtent.x

\* C10 as stated: the mouseleave listener leaves a cursorXLocation that was
\* set as it was.
C10_MouseLeaveRetainsCursor ==
  [][ (lastEvent' = "mouseleave" /\ cursorXLocation # None) =>
        cursorXLocation' = cursorXLocation ]_vars

\* C10 as amended: the mouseleave listener resolves cursorXLocation anew from
\* the offsetX of the leave event, and clears the inside flag.
C10_MouseLeaveResolvesCursor ==
  [][ \A event \in CursorEvents :
        MouseLeave(event) =>
          /\ cursorXLocation' = Some(GetDataX(inputs, event.offsetX))
          /\ isCursorInside' = FALSE
    ]_vars

\* C10 witness: after a mouse leave the cursor location is the data value of
\* the rightmost pixel column, and the cursor is outside.
C10_Witness ==
  /\ lastEvent = "mouseleave"
  /\ cursorXLocation = Some(inputs.viewExtent.x[2])
  /\ isCursorInside = FALSE

\* C11: a mousedown handled in any state sets the state to PANNING when Shift
\* is held and to DRAG_ZOOMING otherwise and records the pointer position as
\* the drag origin; in the DRAG_ZOOMING case the zoom box becomes the box of
\* width 0 and height 0 at the pointer position; nothing is emitted.
C11_MouseDownStartsGesture ==
  [][ \A event \in MouseDownEvents :
        MouseDown(event) =>
          /\ state' = IF event.shiftKey THEN "PANNING" ELSE "DRAG_ZOOMING"
          /\ dragStartCoord' = Some([ x |-> event.offsetX, y |-> event.offsetY ])
          /\ (~ event.shiftKey =>
                zoomBoxInUiCoordinate' =
                  [ x |-> event.offsetX, width |-> 0,
                    y |-> event.offsetY, height |-> 0 ])
          /\ viewExtentChanges' = << >>
          /\ viewExtentResets' = 0
    ]_vars

\* C11 witness: a mousedown with Shift held has started a pan at the bottom
\* right pixel, over the zoom box of an earlier drag.
C11_Witness ==
  /\ lastEvent = "mousedown"
  /\ state = "PANNING"
  /\ dragStartCoord = Some([ x |-> MaxX, y |-> MaxY ])
  /\ zoomBoxInUiCoordinate.width > 0

\* The smallest and the largest element of a non-empty set of integers.
C12_Least(S) == CHOOSE a \in S : \A b \in S : a <= b

C12_Greatest(S) == CHOOSE a \in S : \A b \in S : a >= b

\* C12: after a mousemove handled while DRAG_ZOOMING the zoom box is the
\* axis-aligned bounding rectangle of the drag origin and the pointer
\* position, whatever the direction of the drag; the state stays
\* DRAG_ZOOMING and nothing is emitted.  The width and the height of the zoom
\* box are never negative.
C12_DragZoomBoxIsBoundingRectangle ==
  /\ [][ \A event \in MouseMoveEvents("DRAG_ZOOMING") :
           (state = "DRAG_ZOOMING" /\ MouseMove(event)) =>
             LET xs == { dragStartCoord[1].x, event.offsetX }
                 ys == { dragStartCoord[1].y, event.offsetY }
             IN  /\ zoomBoxInUiCoordinate' =
                      [ x |-> C12_Least(xs),
                        width |-> C12_Greatest(xs) - C12_Least(xs),
                        y |-> C12_Least(ys),
                        height |-> C12_Greatest(ys) - C12_Least(ys) ]
                 /\ state' = "DRAG_ZOOMING"
                 /\ viewExtentChanges' = << >>
                 /\ viewExtentResets' = 0
       ]_vars
  /\ [](zoomBoxInUiCoordinate.width >= 0 /\ zoomBoxInUiCoordinate.height >= 0)

\* C12 witness: a drag from the bottom right pixel up and to the left has
\* made a zoom box of positive width and height.
C12_Witness ==
  /\ lastEvent = "mousemove"
  /\ state = "DRAG_ZOOMING"
  /\ dragStartCoord = Some([ x |-> MaxX, y |-> MaxY ])
  /\ zoomBoxInUiCoordinate = [ x |-> 0, width |-> MaxX, y |-> 0, height |-> MaxY ]

\* C13: at most one hide-instruction timer is subscribed at any time, and
\* showZoomInstruction is true exactly while one is.  Every wheel event
\* unsubscribes the timer that was pending: one that does not zoom starts a
\* fresh timer of 3000 ms, one that zooms leaves none and hides the
\* instruction at once.  The callback runs only for a timer whose 3000 ms have
\* passed since the wheel event that started it, and leaves none subscribed.
C13_SingleTimerInFlight ==
  /\ [](Len(timer) <= 1 /\ (showZoomInstruction <=> timer # None))
  /\ [][ \A event \in WheelEvents :
           Wheel(event) =>
             IF event.altKey /\ ~ event.ctrlKey /\ ~ event.shiftKey
             THEN timer' = None /\ showZoomInstruction' = FALSE
             ELSE timer' = << TIMER_MS >> /\ showZoomInstruction' = TRUE
       ]_vars
  /\ [][ TimerFire => (timer = << 0 >> /\ timer' = None) ]_vars
  /\ [][ (timer # None /\ timer' # None /\ timer'[1] < timer[1]) =>
           (timer' = << 0 >> /\ UNCHANGED << fields, lastEvent >>) ]_vars

\* C13 witness: a wheel event that does not zoom has restarted the timer
\* after a wheel zoom.
C13_Witness ==
  /\ lastEvent = "wheel"
  /\ state = "SCROLL_ZOOMING"
  /\ timer = << TIMER_MS >>
  /\ showZoomInstruction

\* C14: a mouseup handled in any state leaves the state NONE and the drag
\* origin cleared; handled while PANNING, SCROLL_ZOOMING or NONE it emits
\* nothing, also when the zoom box left by an earlier drag has positive width
\* and height.
C14_MouseUpEndsGesture ==
  [][ MouseUp =>
        /\ state' = "NONE"
        /\ dragStartCoord' = None
        /\ viewExtentResets' = 0
        /\ (state # "DRAG_ZOOMING" => viewExtentChanges' = << >>)
    ]_vars

\* C14 witness: a mouseup has emitted nothing although the zoom box of an
\* earlier drag has positive width and height.
C14_Witness ==
  /\ lastEvent = "mouseup"
  /\ state = "NONE"
  /\ viewExtentChanges = << >>
  /\ zoomBoxInUiCoordinate.width > 0
  /\ zoomBoxInUiCoordinate.height > 0

\* C15: the state leaves NONE only through a mousedown or a wheel event with
\* Alt held and neither Ctrl nor Shift; every other listener, hook and
\* callback leaves a state of NONE as it is.  After a mouseup, a mouseleave
\* or a dblclick the state is NONE.
C15_IdleUntilGestureStarts ==
  /\ [][ (state = "NONE" /\ state' # "NONE") =>
           \/ \E event \in MouseDownEvents : MouseDown(event)
           \/ \E event \in WheelEvents :
                /\ Wheel(event)
                /\ event.altKey /\ ~ event.ctrlKey /\ ~ event.shiftKey
       ]_vars
  /\ [](lastEvent \in { "mouseup", "mouseleave", "dblclick" } => state = "NONE")

\* C15 witness: a wheel event that does not zoom has left the state NONE.
C15_Witness ==
  /\ lastEvent = "wheel"
  /\ state = "NONE"
  /\ showZoomInstruction

\* The tooltip resolution of the series data and metadata of inp at cursorX:
\* one datum per series that has metadata, is visible, is not aux and has a
\* closest point, in the order of seriesData.
C16_TooltipData(inp, cursorX) ==
  LET resolved == { i \in 1 .. Len(inp.seriesData) :
                      /\ inp.seriesData[i].id \in DOMAIN inp.seriesMetadataMap
                      /\ inp.seriesMetadataMap[inp.seriesData[i].id].visible
                      /\ ~ inp.seriesMetadataMap[inp.seriesData[i].id].aux
                      /\ inp.seriesData[i].points # << >> }
      position(k) == CHOOSE i \in resolved :
                       Cardinality({ j \in resolved : j <= i }) = k
      closest(points) ==
        CHOOSE i \in 1 .. Len(points) :
          \A j \in 1 .. Len(points) :
            \/ Abs(points[i].x - cursorX) < Abs(points[j].x - cursorX)
            \/ Abs(points[i].x - cursorX) = Abs(points[j].x - cursorX) /\ i <= j
  IN  [ k \in 1 .. Cardinality(resolved) |->
          LET series == inp.seriesData[position(k)]
          IN  [ id |-> series.id,
                indClosest |-> << closest(series.points) - 1 >>,
                point |-> << series.points[closest(series.points)] >>,
                metadata |-> inp.seriesMetadataMap[series.id] ] ]

\* C16: a mousemove handled in state SCROLL_ZOOMING sets the state to NONE,
\* sets cursorXLocation to the data x of the column of that move, resolves
\* cursoredData and the attachment flag at it, and emits nothing; a mousemove
\* handled while PANNING or DRAG_ZOOMING changes none of cursorXLocation,
\* cursoredData and the attachment flag.
C16_MouseMoveEndsScrollZoom ==
  /\ [][ \A event \in MouseMoveEvents("SCROLL_ZOOMING") :
           (state = "SCROLL_ZOOMING" /\ MouseMove(event)) =>
             LET column == inputs.viewExtent.x[1]
                             + (event.offsetX
                                  * (inputs.viewExtent.x[2] - inputs.viewExtent.x[1]))
                               \div inputs.domDim.width
             IN  /\ state' = "NONE"
                 /\ cursorXLocation' = << column >>
                 /\ cursoredData' = C16_TooltipData(inputs, column)
                 /\ tooltipDislayAttached' =
                      (isCursorInside /\ cursoredData' # << >>)
                 /\ viewExtentChanges' = << >>
                 /\ viewExtentResets' = 0
       ]_vars
  /\ [][ \A st \in { "PANNING", "DRAG_ZOOMING" } :
           (state = st /\ \E event \in MouseMoveEvents(st) : MouseMove(event)) =>
             UNCHANGED << cursorXLocation, cursoredData, tooltipDislayAttached >>
       ]_vars

\* C16 witness: mouse moves of a drag have dragged the zoom box to a column
\* other than the one the tooltip cursor stays at.
C16_Witness ==
  /\ lastEvent = "mousemove"
  /\ state = "DRAG_ZOOMING"
  /\ zoomBoxInUiCoordinate.width > 0
  /\ tooltipDislayAttached
  /\ cursorXLocation = Some(GetDataX(inputs, dragStartCoord[1].x))

\* C17: a dblclick handled in any state emits exactly one reset and no
\* extent change, and leaves the state NONE.
C17_DblClickResets ==
  lastEvent = "dblclick" =>
    /\ viewExtentResets = 1
    /\ viewExtentChanges = << >>
    /\ state = "NONE"

\* C17 witness: a dblclick was handled in the middle of a drag.
C17_Witness ==
  /\ lastEvent = "dblclick"
  /\ viewExtentResets = 1
  /\ dragStartCoord # None
  /\ zoomBoxInUiCoordinate.width > 0
  /\ zoomBoxInUiCoordinate.height > 0

\* C18: in every reachable state with cursorXLocation set, cursoredData is
\* the tooltip resolution of the current series data and metadata at the
\* current cursorXLocation; while cursorXLocation is unset cursoredData is
\* empty and the tooltip is not attached.
C18_CursoredDataIsCurrent ==
  IF cursorXLocation # None
  THEN cursoredData = C16_TooltipData(inputs, cursorXLocation[1])
  ELSE cursoredData = << >> /\ ~ tooltipDislayAttached

\* C18 witness: with the cursor inside and located, an input change has left
\* no series to resolve.
C18_Witness ==
  /\ lastEvent = "ngOnChanges"
  /\ cursorXLocation # None
  /\ isCursorInside
  /\ cursoredData = << >>
  /\ \E i \in 1 .. Len(inputs.seriesData) :
       inputs.seriesData[i].points # << >>

\* C19: in every reachable state, DRAG_ZOOMING implies that dragStartCoord
\* is set, so a mousemove while drag zooming never takes the early exit.
C19_DragZoomingHasOrigin ==
  state = "DRAG_ZOOMING" => dragStartCoord # None

\* C19 witness: a mouseenter was handled in the middle of a drag whose zoom
\* box has grown.
C19_Witness ==
  /\ state = "DRAG_ZOOMING"
  /\ lastEvent = "mouseenter"
  /\ dragStartCoord # None
  /\ zoomBoxInUiCoordinate.width > 0

\* The rectangle spanned by two pixel positions.
C20_Spanned(p, q) ==
  [ x |-> IF p.x <= q.x THEN p.x ELSE q.x,
    width |-> IF p.x <= q.x THEN q.x - p.x ELSE p.x - q.x,
    y |-> IF p.y <= q.y THEN p.y ELSE q.y,
    height |-> IF p.y <= q.y THEN q.y - p.y ELSE p.y - q.y ]

\* C20: an extent change emitted by mouseup comes from the current drag.
\*  - a drag (state DRAG_ZOOMING, or a new drag origin within it) starts
\*    only by a mousedown without shift, with the drag origin at its position
\*    and the zoom box empty at that position;
\*  - while the state stays DRAG_ZOOMING the zoom box changes only by such a
\*    mousedown or by a mousemove, which keeps the origin and makes the box
\*    the rectangle spanned by the origin and the position of the move;
\*  - mouseleave, mouseup, dblclick and a wheel event with only Alt held end
\*    the drag;
\*  - mouseup emits only in DRAG_ZOOMING with a box of positive width and
\*    height, and then emits the data extent of that box.
C20_CommitComesFromCurrentDrag ==
  /\ [][ (state' = "DRAG_ZOOMING"
            /\ (state # "DRAG_ZOOMING" \/ dragStartCoord' # dragStartCoord)) =>
           \E event \in MouseDownEvents :
             /\ MouseDown(event)
             /\ ~ event.shiftKey
             /\ dragStartCoord' = << [ x |-> event.offsetX, y |-> event.offsetY ] >>
             /\ zoomBoxInUiCoordinate' =
                  [ x |-> event.offsetX, width |-> 0,
                    y |-> event.offsetY, height |-> 0 ]
       ]_vars
  /\ [][ (state = "DRAG_ZOOMING" /\ state' = "DRAG_ZOOMING"
            /\ zoomBoxInUiCoordinate' # zoomBoxInUiCoordinate) =>
           \/ \E event \in MouseDownEvents :
                /\ MouseDown(event)
                /\ dragStartCoord' = << [ x |-> event.offsetX, y |-> event.offsetY ] >>
                /\ zoomBoxInUiCoordinate' =
                     [ x |-> event.offsetX, width |-> 0,
                       y |-> event.offsetY, height |-> 0 ]
           \/ \E event \in MouseMoveEvents("DRAG_ZOOMING") :
                /\ MouseMove(event)
                /\ dragStartCoord' = dragStartCoord
                /\ zoomBoxInUiCoordinate' =
                     C20_Spanned(dragStartCoord[1],
                                 [ x |-> event.offsetX, y |-> event.offsetY ])
       ]_vars
  /\ [][ ( \/ MouseUp
           \/ DblClick
           \/ \E event \in CursorEvents : MouseLeave(event)
           \/ \E event \in WheelEvents :
                /\ Wheel(event)
                /\ event.altKey /\ ~ event.ctrlKey /\ ~ event.shiftKey ) =>
           state' # "DRAG_ZOOMING"
       ]_vars
  /\ [][ MouseUp =>
           IF /\ state = "DRAG_ZOOMING"
              /\ zoomBoxInUiCoordinate.width > 0
              /\ zoomBoxInUiCoordinate.height > 0
           THEN viewExtentChanges' =
                  << [ x |-> << GetDataX(inputs, zoomBoxInUiCoordinate.x),
                                GetDataX(inputs, zoomBoxInUiCoordinate.x
                                                   + zoomBoxInUiCoordinate.width) >>,
                       y |-> << GetDataY(inputs, zoomBoxInUiCoordinate.y
                                                   + zoomBoxInUiCoordinate.height),
                                GetDataY(inputs, zoomBoxInUiCoordinate.y) >> ] >>
           ELSE viewExtentChanges' = << >>
       ]_vars

\* C20 witness: a mouseup has committed a drag that a wheel event without
\* Alt did not interrupt.
C20_Witness ==
  /\ lastEvent = "mouseup"
  /\ Len(viewExtentChanges) = 1
  /\ showZoomInstruction
  /\ timer # None

====
